---- MODULE Spec2Model ----
(***************************************************************************)
(* Sparse binding handling of the Intel Vulkan driver                      *)
(* (src/intel/vulkan/anv_sparse.c).                                        *)
(*                                                                         *)
(* Every sparse resource owns one struct anv_sparse_binding_data: the      *)
(* virtual address range reserved for it.  The operations of the file      *)
(* reserve and release that range, translate opaque and image bind         *)
(* requests into struct anv_vm_bind operations handed to the kernel        *)
(* backend one at a time, compute the miptail of an image and decide       *)
(* whether a sparse image can be created at all.                           *)
(*                                                                         *)
(* All quantities are the byte, element and pixel quantities of the code.  *)
(***************************************************************************)
EXTENDS Integers, Sequences, FiniteSets, TLC

(***************************************************************************)
(* Program constants and model bounds                                      *)
(***************************************************************************)

\* anv_private.h: the granularity of every sparse binding, 64 KiB.
ANV_SPARSE_BLOCK_SIZE == 65536

\* The number of address ranges the VMA heap of the model can hand out.
MaxVmaSlots == 1

\* Plane base offsets inside the image binding: 0 .. MaxPlaneBlocks blocks.
MaxPlaneBlocks == 1

\* Offsets into the backing memory object: 0 .. MaxMemBlocks blocks.
MaxMemBlocks == 1

\* Array layers of the images: 1 .. MaxLayers.
MaxLayers == 1

NULL == "NULL"

(***************************************************************************)
(* Arithmetic helpers of util/u_math.h as the file uses them               *)
(***************************************************************************)

\* align64(value, alignment): round up to a power-of-two alignment.
align64(v, a) == ((v + a - 1) \div a) * a

\* ALIGN_NPOT(value, alignment): round up to any alignment.
ALIGN_NPOT(v, a) == ((v + a - 1) \div a) * a

(***************************************************************************)
(* Pixel / element conversion, one format layout = [bw, bh, bd, bpb]       *)
(***************************************************************************)

vk_offset3d_px_to_el(o, layout) ==
    [x |-> o.x \div layout.bw, y |-> o.y \div layout.bh, z |-> o.z \div layout.bd]

vk_extent3d_px_to_el(e, layout) ==
    [width  |-> e.width \div layout.bw,
     height |-> e.height \div layout.bh,
     depth  |-> e.depth \div layout.bd]

vk_extent3d_el_to_px(e, layout) ==
    [width  |-> e.width * layout.bw,
     height |-> e.height * layout.bh,
     depth  |-> e.depth * layout.bd]

isl_tiling_supports_standard_block_shapes(tiling) ==
    tiling \in {"ISL_TILING_64", "ISL_TILING_ICL_Ys", "ISL_TILING_SKL_Ys"}

\* The standard block shapes in elements, before the conversion to pixels.
StandardShapeEl(image_type, texel_size) ==
    IF image_type = "2D" THEN
        CASE texel_size = 8   -> [width |-> 256, height |-> 256, depth |-> 1]
          [] texel_size = 16  -> [width |-> 256, height |-> 128, depth |-> 1]
          [] texel_size = 32  -> [width |-> 128, height |-> 128, depth |-> 1]
          [] texel_size = 64  -> [width |-> 128, height |-> 64,  depth |-> 1]
          [] texel_size = 128 -> [width |-> 64,  height |-> 64,  depth |-> 1]
          [] OTHER            -> [width |-> 0,   height |-> 0,   depth |-> 0]
    ELSE IF image_type = "3D" THEN
        CASE texel_size = 8   -> [width |-> 64, height |-> 32, depth |-> 32]
          [] texel_size = 16  -> [width |-> 32, height |-> 32, depth |-> 32]
          [] texel_size = 32  -> [width |-> 32, height |-> 32, depth |-> 16]
          [] texel_size = 64  -> [width |-> 32, height |-> 16, depth |-> 16]
          [] texel_size = 128 -> [width |-> 16, height |-> 16, depth |-> 16]
          [] OTHER            -> [width |-> 0,  height |-> 0,  depth |-> 0]
    ELSE [width |-> 0, height |-> 0, depth |-> 0]

anv_sparse_get_standard_image_block_shape(layout, image_type, texel_size) ==
    vk_extent3d_el_to_px(StandardShapeEl(image_type, texel_size), layout)

(***************************************************************************)
(* The tiling layout of a surface (struct isl_surf and what ISL answers    *)
(* about it).  A surface is a record:                                      *)
(*   type, tiling, layout = [bw, bh, bd, bpb], tile = the logical tile     *)
(*   extent in elements, extent = the level-0 extent in pixels,            *)
(*   row_pitch_B, size_B, miptail_start_level, mip_levels, array_layers,   *)
(*   level_x / level_y = the origin of every level inside a layer, in      *)
(*   elements, array_pitch_el_rows, slab_pitch_B = the bytes between two   *)
(*   tile-deep slabs of a 3D surface, plane_offset = the offset of the     *)
(*   plane inside the image binding.                                       *)
(***************************************************************************)

Bytes(layout) == layout.bpb \div 8

TileBytes(surf) ==
    surf.tile.width * Bytes(surf.layout) * surf.tile.height * surf.tile.depth

\* isl_surf_get_image_offset_B_tile_sa: the offset of the tile that holds
\* the origin of (level, layer, z) and the origin's place inside that tile.
isl_surf_get_image_offset_B_tile_sa(surf, level, layer, z) ==
    LET x_el == surf.level_x[level + 1]
        y_el == surf.level_y[level + 1] + layer * surf.array_pitch_el_rows
        tiles_per_row == surf.row_pitch_B \div (surf.tile.width * Bytes(surf.layout))
        slab == z \div surf.tile.depth
    IN  [offset_B |-> ((y_el \div surf.tile.height) * tiles_per_row
                         + (x_el \div surf.tile.width)) * TileBytes(surf)
                      + slab * surf.slab_pitch_B,
         x_off |-> x_el % surf.tile.width,
         y_off |-> y_el % surf.tile.height]

\* A 2D colour image, 32 bits per texel, 250 x 200 pixels, Tile64: level 0
\* is 2 x 2 tiles, level 1 one tile below it, the miptail one tile beside
\* level 1; a layer is 3 tile rows of 2 tiles.
Image2D(layers, plane_blocks) ==
    [kind |-> "image", type |-> "2D", tiling |-> "ISL_TILING_64",
     layout |-> [bw |-> 1, bh |-> 1, bd |-> 1, bpb |-> 32],
     tile |-> [width |-> 128, height |-> 128, depth |-> 1],
     extent |-> [width |-> 250, height |-> 200, depth |-> 1],
     row_pitch_B |-> 1024,
     size_B |-> layers * 6 * ANV_SPARSE_BLOCK_SIZE,
     miptail_start_level |-> 2, mip_levels |-> 4, array_layers |-> layers,
     level_x |-> <<0, 0, 128, 192>>, level_y |-> <<0, 256, 256, 256>>,
     array_pitch_el_rows |-> 384, slab_pitch_B |-> 0,
     plane_offset |-> plane_blocks * ANV_SPARSE_BLOCK_SIZE]

\* A 3D colour image, 32 bits per texel, 60 x 64 x 32 pixels, Tile64: level
\* 0 is 2 x 2 x 2 tiles, a slab of 16 slices is 3 tile rows of 2 tiles.
Image3D(plane_blocks) ==
    [kind |-> "image", type |-> "3D", tiling |-> "ISL_TILING_64",
     layout |-> [bw |-> 1, bh |-> 1, bd |-> 1, bpb |-> 32],
     tile |-> [width |-> 32, height |-> 32, depth |-> 16],
     extent |-> [width |-> 60, height |-> 64, depth |-> 32],
     row_pitch_B |-> 256,
     size_B |-> 12 * ANV_SPARSE_BLOCK_SIZE,
     miptail_start_level |-> 2, mip_levels |-> 4, array_layers |-> 1,
     level_x |-> <<0, 0, 32, 48>>, level_y |-> <<0, 64, 64, 64>>,
     array_pitch_el_rows |-> 96, slab_pitch_B |-> 6 * ANV_SPARSE_BLOCK_SIZE,
     plane_offset |-> plane_blocks * ANV_SPARSE_BLOCK_SIZE]

\* A 2D block-compressed image, 4 x 4 pixels and 64 bits per element,
\* 1000 x 512 pixels, Tile64: level 0 is 2 x 2 tiles of 128 x 64 elements.
ImageBC(plane_blocks) ==
    [kind |-> "image", type |-> "2D", tiling |-> "ISL_TILING_64",
     layout |-> [bw |-> 4, bh |-> 4, bd |-> 1, bpb |-> 64],
     tile |-> [width |-> 128, height |-> 64, depth |-> 1],
     extent |-> [width |-> 1000, height |-> 512, depth |-> 1],
     row_pitch_B |-> 2048,
     size_B |-> 6 * ANV_SPARSE_BLOCK_SIZE,
     miptail_start_level |-> 2, mip_levels |-> 4, array_layers |-> 1,
     level_x |-> <<0, 0, 128, 192>>, level_y |-> <<0, 128, 128, 128>>,
     array_pitch_el_rows |-> 192, slab_pitch_B |-> 0,
     plane_offset |-> plane_blocks * ANV_SPARSE_BLOCK_SIZE]

\* A sparse buffer: no surface, only a size, which need not be aligned.
Buffer(size) ==
    [kind |-> "buffer", size_B |-> size, plane_offset |-> 0]

Images ==
    {Image2D(l, p) : l \in 1..MaxLayers, p \in 0..MaxPlaneBlocks}
    \cup {Image3D(p) : p \in 0..MaxPlaneBlocks}
    \cup {ImageBC(p) : p \in 0..MaxPlaneBlocks}

Buffers == {Buffer(4096), Buffer(3 * ANV_SPARSE_BLOCK_SIZE)}

Resources == Images \cup Buffers

\* The size of the binding the resource asks a VA range for.
BindingSize(res) == res.plane_offset + res.size_B

(***************************************************************************)
(* The sparse block shape of a surface                                     *)
(***************************************************************************)

anv_sparse_calc_block_shape(surf) ==
    LET layout == surf.layout
        Bpb == layout.bpb \div 8
        block_shape_el == surf.tile
        elements_per_row == surf.row_pitch_B \div (block_shape_el.width * Bpb)
        rows_per_tile == ANV_SPARSE_BLOCK_SIZE \div (elements_per_row * Bpb)
    IN  IF surf.tiling = "ISL_TILING_LINEAR"
        THEN [width  |-> elements_per_row * layout.bw,
              height |-> rows_per_tile * layout.bh,
              depth  |-> layout.bd]
        ELSE vk_extent3d_el_to_px(block_shape_el, layout)

(***************************************************************************)
(* Bind requests and their translation                                     *)
(*                                                                         *)
(* VkSparseMemoryBind       = [resourceOffset, size, memory, memoryOffset] *)
(* VkSparseImageMemoryBind  = [mipLevel, arrayLayer, offset, extent,       *)
(*                             memory, memoryOffset]                       *)
(* struct anv_vm_bind       = [bo, address, bo_offset, size, op]           *)
(***************************************************************************)

\* The one memory object of the model.  Its bo is large enough for every
\* request, as the assertion in vk_bind_to_anv_vm_bind demands.
Memories == {"bo1"}

anv_device_memory_from_handle(memory) == memory

\* A translation that turns a bind without memory into an unbind.
vk_bind_to_anv_vm_bind_reversing(sparse_data, vk_bind) ==
    [bo        |-> IF vk_bind.memory # NULL
                   THEN anv_device_memory_from_handle(vk_bind.memory)
                   ELSE NULL,
     address   |-> sparse_data.address + vk_bind.resourceOffset,
     bo_offset |-> IF vk_bind.memory # NULL THEN vk_bind.memoryOffset ELSE 0,
     size      |-> vk_bind.size,
     op        |-> IF vk_bind.memory # NULL THEN "ANV_VM_BIND" ELSE "ANV_VM_UNBIND"]

vk_bind_to_anv_vm_bind(sparse_data, vk_bind) ==
    [bo        |-> IF vk_bind.memory # NULL
                   THEN anv_device_memory_from_handle(vk_bind.memory)
                   ELSE NULL,
     address   |-> sparse_data.address + vk_bind.resourceOffset,
     bo_offset |-> IF vk_bind.memory # NULL THEN vk_bind.memoryOffset ELSE 0,
     size      |-> vk_bind.size,
     op        |-> "ANV_VM_BIND"]

\* The locals anv_sparse_bind_image_memory computes before its loops.
ImageBindGeometry(surf, bind) ==
    LET layout == surf.layout
        block_shape_px == anv_sparse_calc_block_shape(surf)
        block_shape_el == vk_extent3d_px_to_el(block_shape_px, layout)
        bind_offset_el == vk_offset3d_px_to_el(bind.offset, layout)
        bind_extent_px ==
            [width  |-> ALIGN_NPOT(bind.extent.width, block_shape_px.width),
             height |-> ALIGN_NPOT(bind.extent.height, block_shape_px.height),
             depth  |-> ALIGN_NPOT(bind.extent.depth, block_shape_px.depth)]
        bind_extent_el == vk_extent3d_px_to_el(bind_extent_px, layout)
        block_size_B == block_shape_el.width * (layout.bpb \div 8)
                          * block_shape_el.height * block_shape_el.depth
        blocks_per_line == (surf.row_pitch_B \div (layout.bpb \div 8))
                             \div block_shape_el.width
        line_bind_size_in_blocks == bind_extent_el.width \div block_shape_el.width
    IN  [block_shape_el |-> block_shape_el,
         bind_offset_el |-> bind_offset_el,
         bind_extent_el |-> bind_extent_el,
         block_size_B |-> block_size_B,
         blocks_per_line |-> blocks_per_line,
         line_bind_size_in_blocks |-> line_bind_size_in_blocks,
         line_bind_size |-> line_bind_size_in_blocks * block_size_B]

\* The VkSparseMemoryBind of the loop body for row y of slice z.
RowOpaqueBind(surf, bind, z, y, memory_offset) ==
    LET g == ImageBindGeometry(surf, bind)
        sub == isl_surf_get_image_offset_B_tile_sa(surf, bind.mipLevel,
                                                   bind.arrayLayer, z)
        line_block_offset == (y \div g.block_shape_el.height) * g.blocks_per_line
        line_start_B == sub.offset_B + line_block_offset * g.block_size_B
        bind_offset_B == line_start_B
                           + (g.bind_offset_el.x \div g.block_shape_el.width)
                               * g.block_size_B
    IN  [resourceOffset |-> surf.plane_offset + bind_offset_B,
         size           |-> g.line_bind_size,
         memory         |-> bind.memory,
         memoryOffset   |-> memory_offset]

\* The assertions of the loop body.
RowAssertions(surf, bind, z, y) ==
    LET g == ImageBindGeometry(surf, bind)
        sub == isl_surf_get_image_offset_B_tile_sa(surf, bind.mipLevel,
                                                   bind.arrayLayer, z)
        ob == RowOpaqueBind(surf, bind, z, y, 0)
    IN  /\ sub.x_off = 0 /\ sub.y_off = 0
        /\ sub.offset_B % g.block_size_B = 0
        /\ ob.resourceOffset % g.block_size_B = 0
        /\ ob.size % g.block_size_B = 0

(***************************************************************************)
(* The requests the callers make                                           *)
(***************************************************************************)

MemoryChoices ==
    {<<NULL, 0>>}
    \cup {<<m, k * ANV_SPARSE_BLOCK_SIZE>> : m \in Memories, k \in 0..MaxMemBlocks}

\* Opaque requests inside the VA range: size # 0 and
\* resourceOffset + size <= sparse->size, aligned or not.
OpaqueBinds(sparse_data) ==
    {r \in [resourceOffset : {0, 4096, ANV_SPARSE_BLOCK_SIZE},
            size : {4096, ANV_SPARSE_BLOCK_SIZE, 2 * ANV_SPARSE_BLOCK_SIZE},
            memory : {NULL} \cup Memories,
            memoryOffset : {k * ANV_SPARSE_BLOCK_SIZE : k \in 0..MaxMemBlocks}] :
        /\ r.resourceOffset + r.size <= sparse_data.size
        /\ <<r.memory, r.memoryOffset>> \in MemoryChoices}

Max(a, b) == IF a >= b THEN a ELSE b
Min(a, b) == IF a <= b THEN a ELSE b

RECURSIVE Minify(_, _)
Minify(n, level) == IF level = 0 THEN n ELSE Minify(Max(1, n \div 2), level - 1)

LevelExtent(surf, level) ==
    [width  |-> Minify(surf.extent.width, level),
     height |-> Minify(surf.extent.height, level),
     depth  |-> Minify(surf.extent.depth, level)]

\* Along one axis: the whole level, its first block, or all but the first
\* block.  <<offset, extent>> in pixels; offsets are block aligned.
AxisChoices(full, block) ==
    {<<0, full>>}
    \cup (IF full > block THEN {<<0, block>>, <<block, full - block>>} ELSE {})

\* Image requests on one level.
ImageBindsAt(surf, lv) ==
    LET shape == anv_sparse_calc_block_shape(surf)
        ext == LevelExtent(surf, lv)
    IN  {[mipLevel |-> lv, arrayLayer |-> ly,
          offset |-> [x |-> cx[1], y |-> cy[1], z |-> cz[1]],
          extent |-> [width |-> cx[2], height |-> cy[2], depth |-> cz[2]],
          memory |-> mc[1], memoryOffset |-> mc[2]] :
           ly \in 0..(surf.array_layers - 1),
           cx \in AxisChoices(ext.width, shape.width),
           cy \in AxisChoices(ext.height, shape.height),
           cz \in AxisChoices(ext.depth, shape.depth),
           mc \in MemoryChoices}

\* Image requests on the levels outside the miptail.
ImageBinds(surf) ==
    UNION {ImageBindsAt(surf, lv) :
             lv \in 0..(Min(surf.miptail_start_level, surf.mip_levels) - 1)}

(***************************************************************************)
(* State                                                                   *)
(***************************************************************************)

VARIABLES
    resource,     \* the buffer or image the binding data belongs to
    life,         \* "none": not created (or destroyed), "live": created
    sparse,       \* struct anv_sparse_binding_data: [address, size]
    out_address,  \* *out_address of anv_init_sparse_bindings: [bo, offset]
    vma,          \* the ranges [address, size] reserved in the VMA heap
    vma_frees,    \* the anv_vma_free calls of the current call, in order
    submitted,    \* the vm_bind calls of the current call: [bind, rc]
    call,         \* the current (or last) call: [name, req]
    result,       \* what it returned, "running" until it returns
    prev,         \* the call before it, when this call unbinds what it
                  \* bound: [call, submitted, result]
    pc,           \* "idle", or "loop" inside anv_sparse_bind_image_memory
    loop,         \* the loop variables there: [z, y, memory_offset]
    query,        \* the arguments of a capability query (miptail, support)
    answer        \* what the query returned, NoAnswer before it is made

vars == <<resource, life, sparse, out_address, vma, vma_frees, submitted,
          call, result, prev, pc, loop, query, answer>>

queryvars == <<query, answer>>
bindvars == <<resource, life, sparse, out_address, vma, vma_frees, submitted,
              call, result, prev, pc, loop>>

NoCall == [name |-> "none", req |-> NULL]
NoLoop == [z |-> 0, y |-> 0, memory_offset |-> 0]

NoQuery == [fn |-> "none"]
NoAnswer == [status |-> "none"]

\* The binding data of a resource that is yet to be created.
InitBinding(res) ==
    /\ resource = res
    /\ life = "none"
    /\ sparse = [address |-> 0, size |-> 0]
    /\ out_address = [bo |-> NULL, offset |-> 0]
    /\ vma = {}
    /\ vma_frees = <<>>
    /\ submitted = <<>>
    /\ call = NoCall
    /\ result = "none"
    /\ prev = [call |-> NoCall, submitted |-> <<>>, result |-> "none"]
    /\ pc = "idle"
    /\ loop = NoLoop

Init ==
    /\ \E res \in Resources : InitBinding(res)
    /\ query = NoQuery
    /\ answer = NoAnswer

NoPrev == [call |-> NoCall, submitted |-> <<>>, result |-> "none"]

\* The request with its memory replaced by VK_NULL_HANDLE.
WithoutMemory(req) == [req EXCEPT !.memory = NULL, !.memoryOffset = 0]

\* The call (name, req) asks to unbind what the call before it bound.
UnbindsLastCall(name, req) ==
    /\ name = call.name
    /\ name \in {"anv_sparse_bind_resource_memory", "anv_sparse_bind_image_memory"}
    /\ call.req.memory # NULL
    /\ req = WithoutMemory(call.req)

\* A call starts.  The record of the call before it is kept when this call
\* repeats its request with memory = VK_NULL_HANDLE.
Enter(name, req) ==
    /\ pc = "idle"
    /\ call' = [name |-> name, req |-> req]
    /\ prev' = IF UnbindsLastCall(name, req)
               THEN [call |-> call, submitted |-> submitted, result |-> result]
               ELSE NoPrev

(***************************************************************************)
(* The VMA heap (anv_vma_alloc / anv_vma_free) and the kernel backend      *)
(***************************************************************************)

VmaAddresses == {k * 256 * ANV_SPARSE_BLOCK_SIZE : k \in 1..MaxVmaSlots}

Overlaps(a, n, r) == a < r.address + r.size /\ r.address < a + n

\* anv_vma_alloc: 0 when no range can be had, else the start of a free,
\* aligned range.
anv_vma_alloc(heap, size, align) ==
    {0} \cup {a \in VmaAddresses :
                /\ a % align = 0
                /\ \A r \in heap : ~Overlaps(a, size, r)}

anv_vma_free(heap, address, size) ==
    heap \ {[address |-> address, size |-> size]}

\* device->kmd_backend->vm_bind: 0, or an error.
BackendAnswers == {0, -1}

(***************************************************************************)
(* anv_init_sparse_bindings                                                *)
(***************************************************************************)

\* The NULL binding over the whole range.
InitNullBind(address, size) ==
    [bo |-> NULL, address |-> address, bo_offset |-> 0, size |-> size,
     op |-> "ANV_VM_BIND"]

InitSize(size_) == align64(size_, ANV_SPARSE_BLOCK_SIZE)

InitResult(rc) ==
    IF rc # 0 THEN "VK_ERROR_OUT_OF_DEVICE_MEMORY" ELSE "VK_SUCCESS"

anv_init_sparse_bindings(size_, address, rc) ==
    LET size == InitSize(size_)
        reserved == IF address # 0
                    THEN vma \cup {[address |-> address, size |-> size]}
                    ELSE vma
    IN  /\ life = "none"
        /\ Enter("anv_init_sparse_bindings", size_)
        /\ address \in anv_vma_alloc(vma, size, ANV_SPARSE_BLOCK_SIZE)
        /\ sparse' = [address |-> address, size |-> size]
        /\ out_address' = [bo |-> NULL, offset |-> address]
        /\ submitted' = <<[bind |-> InitNullBind(address, size), rc |-> rc]>>
        /\ result' = InitResult(rc)
        /\ IF rc # 0
           THEN /\ vma' = anv_vma_free(reserved, address, size)
                /\ vma_frees' = <<[address |-> address, size |-> size]>>
                /\ life' = "none"
           ELSE /\ vma' = reserved
                /\ vma_frees' = <<>>
                /\ life' = "live"
        /\ UNCHANGED <<resource, pc, loop, queryvars>>

(***************************************************************************)
(* anv_free_sparse_bindings.  The caller destroys the resource whatever    *)
(* the call returns.                                                       *)
(***************************************************************************)

FreeUnbind(sparse_data) ==
    [bo |-> NULL, address |-> sparse_data.address, bo_offset |-> 0,
     size |-> sparse_data.size, op |-> "ANV_VM_UNBIND"]

FreeResult(ret) ==
    IF ret # 0 THEN "VK_ERROR_UNKNOWN" ELSE "VK_SUCCESS"

anv_free_sparse_bindings(ret) ==
    /\ life = "live"
    /\ Enter("anv_free_sparse_bindings", NULL)
    /\ life' = "none"
    /\ IF sparse.address = 0
       THEN /\ ret = 0
            /\ submitted' = <<>>
            /\ result' = "VK_SUCCESS"
            /\ vma_frees' = <<>>
            /\ vma' = vma
       ELSE /\ submitted' = <<[bind |-> FreeUnbind(sparse), rc |-> ret]>>
            /\ result' = FreeResult(ret)
            /\ IF ret # 0
               THEN /\ vma_frees' = <<>>
                    /\ vma' = vma
               ELSE /\ vma_frees' = <<[address |-> sparse.address,
                                       size |-> sparse.size]>>
                    /\ vma' = anv_vma_free(vma, sparse.address, sparse.size)
    /\ UNCHANGED <<resource, sparse, out_address, pc, loop, queryvars>>

(***************************************************************************)
(* anv_sparse_bind_resource_memory                                         *)
(***************************************************************************)

BindResult(rc) ==
    IF rc # 0 THEN "VK_ERROR_OUT_OF_DEVICE_MEMORY" ELSE "VK_SUCCESS"

anv_sparse_bind_resource_memory(vk_bind, rc) ==
    /\ life = "live"
    /\ vk_bind \in OpaqueBinds(sparse)
    /\ Enter("anv_sparse_bind_resource_memory", vk_bind)
    /\ submitted' = <<[bind |-> vk_bind_to_anv_vm_bind(sparse, vk_bind),
                       rc |-> rc]>>
    /\ result' = BindResult(rc)
    /\ vma_frees' = <<>>
    /\ UNCHANGED <<resource, life, sparse, out_address, vma, pc, loop, queryvars>>

(***************************************************************************)
(* anv_sparse_bind_image_memory: the entry, one step per loop iteration    *)
(* (one vm_bind call each), and the return after the loops.                *)
(***************************************************************************)

BindImageBegin(bind) ==
    LET g == ImageBindGeometry(resource, bind)
    IN  /\ life = "live"
        /\ resource.kind = "image"
        /\ g.line_bind_size_in_blocks # 0
        /\ g.line_bind_size # 0
        /\ Enter("anv_sparse_bind_image_memory", bind)
        /\ submitted' = <<>>
        /\ vma_frees' = <<>>
        /\ result' = "running"
        /\ pc' = "loop"
        /\ loop' = [z |-> g.bind_offset_el.z, y |-> g.bind_offset_el.y,
                    memory_offset |-> bind.memoryOffset]
        /\ UNCHANGED <<resource, life, sparse, out_address, vma, queryvars>>

\* for (z ...) continues
InSlices(g, z) == z < g.bind_offset_el.z + g.bind_extent_el.depth

\* A loop bound that is one row too generous.
InRowsInclusive(g, y) == y <= g.bind_offset_el.y + g.bind_extent_el.height

\* for (y ...) continues
InRows(g, y) == y < g.bind_offset_el.y + g.bind_extent_el.height

\* A loop that never looks at the backend's answer.
RowFailedIgnored(rc) == FALSE

\* if (rc) return vk_errorf(...)
RowFailed(rc) == rc # 0

\* An offset that starts again at the request's for every depth slice.
AdvanceMemoryOffsetPerSlice(bind, memory_offset, line_bind_size, last_row) ==
    IF last_row THEN bind.memoryOffset ELSE memory_offset + line_bind_size

\* memory_offset += line_bind_size; the variable is declared outside both
\* loops, so the last row of a slice advances it like any other.
AdvanceMemoryOffset(bind, memory_offset, line_bind_size, last_row) ==
    memory_offset + line_bind_size

BindImageRow(rc) ==
    LET bind == call.req
        g == ImageBindGeometry(resource, bind)
        opaque_bind == RowOpaqueBind(resource, bind, loop.z, loop.y,
                                     loop.memory_offset)
        next_y == loop.y + g.block_shape_el.height
    IN  /\ pc = "loop"
        /\ InSlices(g, loop.z)
        /\ InRows(g, loop.y)
        /\ RowAssertions(resource, bind, loop.z, loop.y)
        /\ submitted' = Append(submitted,
                               [bind |-> vk_bind_to_anv_vm_bind(sparse, opaque_bind),
                                rc |-> rc])
        /\ IF RowFailed(rc)
           THEN /\ result' = "VK_ERROR_OUT_OF_DEVICE_MEMORY"
                /\ pc' = "idle"
                /\ loop' = NoLoop
           ELSE /\ result' = result
                /\ pc' = pc
                /\ loop' = IF InRows(g, next_y)
                           THEN [z |-> loop.z, y |-> next_y,
                                 memory_offset |->
                                     AdvanceMemoryOffset(bind, loop.memory_offset,
                                                         g.line_bind_size, FALSE)]
                           ELSE [z |-> loop.z + g.block_shape_el.depth,
                                 y |-> g.bind_offset_el.y,
                                 memory_offset |->
                                     AdvanceMemoryOffset(bind, loop.memory_offset,
                                                         g.line_bind_size, TRUE)]
        /\ UNCHANGED <<resource, life, sparse, out_address, vma, vma_frees,
                       call, prev, queryvars>>

BindImageReturn ==
    LET g == ImageBindGeometry(resource, call.req)
    IN  /\ pc = "loop"
        /\ ~InSlices(g, loop.z)
        /\ result' = "VK_SUCCESS"
        /\ pc' = "idle"
        /\ loop' = NoLoop
        /\ UNCHANGED <<resource, life, sparse, out_address, vma, vma_frees,
                       submitted, call, prev, queryvars>>

(***************************************************************************)
(* The resource's life: creation, binds, destruction, in any order the     *)
(* callers allow, every backend answer possible.                           *)
(***************************************************************************)

ImageRequests ==
    IF resource.kind = "image" THEN ImageBinds(resource) ELSE {}

Next ==
    \/ \E a \in VmaAddresses \cup {0}, rc \in BackendAnswers :
          anv_init_sparse_bindings(BindingSize(resource), a, rc)
    \/ \E ret \in BackendAnswers : anv_free_sparse_bindings(ret)
    \/ \E b \in OpaqueBinds(sparse), rc \in BackendAnswers :
          anv_sparse_bind_resource_memory(b, rc)
    \/ \E b \in ImageRequests : BindImageBegin(b)
    \/ \E rc \in BackendAnswers : BindImageRow(rc)
    \/ BindImageReturn

Spec == Init /\ [][Next]_vars

(***************************************************************************)
(* anv_sparse_calc_miptail_properties                                      *)
(*                                                                         *)
(* The result is [status, first_lod, size, offset, stride]; status is      *)
(* "abort" when an assertion fails in a build that keeps assertions        *)
(* (ndebug = FALSE); a build without them goes on.                         *)
(***************************************************************************)

Descriptor(first_lod, size, offset, stride) ==
    [status |-> "returned", first_lod |-> first_lod, size |-> size,
     offset |-> offset, stride |-> stride]

Aborted ==
    [status |-> "abort", first_lod |-> 0, size |-> 0, offset |-> 0, stride |-> 0]

out_no_miptail(image) == Descriptor(image.mip_levels, 0, 0, 0)

\* A fallback that reports one tile instead of the whole plane.
out_everything_is_one_tile(image) ==
    Descriptor(0, TileBytes(image), image.plane_offset, 0)

out_everything_is_miptail(image) ==
    Descriptor(0, image.size_B, image.plane_offset, 0)

\* A first level that is one too large.
MiptailFirstLevelOffByOne(surf) == surf.miptail_start_level + 1

\* int miptail_first_level = surf->miptail_start_level;
MiptailFirstLevel(surf) == surf.miptail_start_level

\* A size check that lets every tile size through.
TileSizeAlwaysFits(tile_size) == FALSE

\* if (tile_size != ANV_SPARSE_BLOCK_SIZE) goto out_everything_is_miptail;
TileSizeMismatch(tile_size) == tile_size # ANV_SPARSE_BLOCK_SIZE

anv_sparse_calc_miptail_properties(image, ndebug) ==
    LET surf == image
        binding_plane_offset == image.plane_offset
        tile_size == TileBytes(surf)
        l1 == IF image.array_layers = 1
              THEN [offset_B |-> surf.size_B, x_off |-> 0, y_off |-> 0]
              ELSE isl_surf_get_image_offset_B_tile_sa(surf, 0, 1, 0)
        layer1_offset == l1.offset_B
        miptail_first_level == MiptailFirstLevel(surf)
        mt == isl_surf_get_image_offset_B_tile_sa(surf, miptail_first_level, 0, 0)
    IN  IF TileSizeMismatch(tile_size)
        THEN out_everything_is_miptail(image)
        ELSE IF ~ndebug /\ surf.tiling = "ISL_TILING_LINEAR"
        THEN Aborted
        ELSE IF image.array_layers # 1 /\ (l1.x_off # 0 \/ l1.y_off # 0)
        THEN out_everything_is_miptail(image)
        ELSE IF ~ndebug /\ layer1_offset % tile_size # 0
        THEN Aborted
        ELSE IF ~isl_tiling_supports_standard_block_shapes(surf.tiling)
        THEN out_everything_is_miptail(image)
        ELSE IF miptail_first_level >= image.mip_levels
        THEN out_no_miptail(image)
        ELSE IF ~ndebug /\ ~(mt.x_off = 0 /\ mt.y_off = 0)
        THEN Aborted
        ELSE IF ~ndebug /\ mt.offset_B % tile_size # 0
        THEN Aborted
        ELSE Descriptor(miptail_first_level, tile_size,
                        binding_plane_offset + mt.offset_B, layer1_offset)

(***************************************************************************)
(* The surfaces the miptail is asked of.                                   *)
(***************************************************************************)

\* Most mip levels an image of the model has.
MaxMips == 4

\* Most array layers an image of the miptail queries has.
MaxQueryLayers == 2

Tilings == {"ISL_TILING_64", "ISL_TILING_ICL_Ys", "ISL_TILING_SKL_Ys",
            "ISL_TILING_4", "ISL_TILING_Y0", "ISL_TILING_LINEAR"}

TexelSizes == {8, 16, 32, 64, 128}

\* isl_surf_get_tile_info: the logical tile extent in elements.  The 64 KiB
\* tilings have the standard block shapes, the 4 KiB ones are 128 bytes by
\* 32 rows, a linear surface is its own element.
isl_surf_get_tile_info(tiling, type, bpb) ==
    IF tiling = "ISL_TILING_LINEAR"
    THEN [width |-> 1, height |-> 1, depth |-> 1]
    ELSE IF isl_tiling_supports_standard_block_shapes(tiling)
    THEN StandardShapeEl(type, bpb)
    ELSE [width |-> 128 \div (bpb \div 8), height |-> 32, depth |-> 1]

\* The least alignment of a surface inside its binding: its tile.
SurfAlignment(tiling, tile_bytes) ==
    IF tiling = "ISL_TILING_LINEAR" THEN 64 ELSE tile_bytes

\* A surface two tiles wide: level 0 is 2 x 2 tiles, level 1 the tile below
\* it, level 2 the tile beside level 1, level 3 inside that tile.  A layer
\* is 3 tile rows, or 3 and a half where the array pitch is not aligned.
QuerySurf(tiling, type, bpb, layers, mips, start, aligned, plane_k) ==
    LET tile == isl_surf_get_tile_info(tiling, type, bpb)
        Bpb == bpb \div 8
        tile_bytes == tile.width * Bpb * tile.height * tile.depth
        tw == tile.width
        th == tile.height
        pitch_rows == IF aligned THEN 3 * th ELSE 3 * th + th \div 2
        row_pitch_B == IF tiling = "ISL_TILING_LINEAR" THEN 1024 ELSE 2 * tw * Bpb
        tiles_per_row == row_pitch_B \div (tw * Bpb)
    IN  [kind |-> "image", type |-> type, tiling |-> tiling,
         layout |-> [bw |-> 1, bh |-> 1, bd |-> 1, bpb |-> bpb],
         tile |-> tile,
         extent |-> [width |-> 2 * tw, height |-> 2 * th, depth |-> tile.depth],
         row_pitch_B |-> row_pitch_B,
         size_B |-> layers * ((pitch_rows + th - 1) \div th) * tiles_per_row
                      * tile_bytes,
         miptail_start_level |-> start, mip_levels |-> mips,
         array_layers |-> layers,
         level_x |-> [i \in 1..mips |->
                        IF i <= 2 THEN 0 ELSE IF i = 3 THEN tw ELSE tw + tw \div 2],
         level_y |-> [i \in 1..mips |-> IF i = 1 THEN 0 ELSE 2 * th],
         array_pitch_el_rows |-> pitch_rows, slab_pitch_B |-> 0,
         plane_offset |-> plane_k * SurfAlignment(tiling, tile_bytes)]

\* The miptail start levels ISL reports: a level of the image, or 15 where
\* the surface has no miptail.
MiptailStarts == (1..(MaxMips - 1)) \cup {15}

\* A linear surface for which the layout reports a tile of one whole row
\* of 1024 bytes by 64 rows, 64 KiB: nothing in the layout's interface
\* ties the tile of a linear surface to one element.
LinearBlockSurf(bpb, layers, mips, start, plane_k) ==
    [QuerySurf("ISL_TILING_LINEAR", "2D", bpb, layers, mips, start, TRUE, plane_k)
        EXCEPT !.tile = [width |-> 1024 \div (bpb \div 8), height |-> 64,
                         depth |-> 1],
               !.array_pitch_el_rows = 192,
               !.size_B = layers * 192 * 1024]

MiptailQueries ==
    {[fn |-> "anv_sparse_calc_miptail_properties",
      image |-> QuerySurf(t, ty, b, l, m, st, al, pk),
      ndebug |-> nd] :
        t \in Tilings, ty \in {"2D", "3D"}, b \in TexelSizes,
        l \in 1..MaxQueryLayers, m \in 1..MaxMips, st \in MiptailStarts,
        al \in BOOLEAN, pk \in 0..MaxPlaneBlocks, nd \in BOOLEAN}
    \cup
    {[fn |-> "anv_sparse_calc_miptail_properties",
      image |-> LinearBlockSurf(b, l, m, st, pk),
      ndebug |-> nd] :
        b \in TexelSizes, l \in 1..MaxQueryLayers, m \in 1..MaxMips,
        st \in MiptailStarts, pk \in 0..MaxPlaneBlocks, nd \in BOOLEAN}

MiptailInit ==
    /\ InitBinding(Buffer(4096))
    /\ query \in MiptailQueries
    /\ answer = NoAnswer

CalcMiptailProperties ==
    /\ query.fn = "anv_sparse_calc_miptail_properties"
    /\ answer = NoAnswer
    /\ answer' = anv_sparse_calc_miptail_properties(query.image, query.ndebug)
    /\ UNCHANGED <<query, bindvars>>

MiptailNext == CalcMiptailProperties

MiptailSpec == MiptailInit /\ [][MiptailNext]_vars

(***************************************************************************)
(* anv_sparse_image_check_support                                          *)
(*                                                                         *)
(* A VkFormat is [name, aspects, known, planes]: its aspects               *)
(* (vk_format_aspects), whether anv_get_format knows it, and per plane the *)
(* isl format ("ISL_FORMAT_UNSUPPORTED" or a format name) with its bits    *)
(* per block.                                                              *)
(***************************************************************************)

Plane(isl_format, bpb) == [isl_format |-> isl_format, bpb |-> bpb]

VkFormats ==
    {[name |-> "VK_FORMAT_R8_UNORM", aspects |-> {"COLOR"}, known |-> TRUE,
      planes |-> <<Plane("R8_UNORM", 8)>>],
     [name |-> "VK_FORMAT_R16_UNORM", aspects |-> {"COLOR"}, known |-> TRUE,
      planes |-> <<Plane("R16_UNORM", 16)>>],
     [name |-> "VK_FORMAT_R8G8B8_UNORM", aspects |-> {"COLOR"}, known |-> TRUE,
      planes |-> <<Plane("R8G8B8_UNORM", 24)>>],
     [name |-> "VK_FORMAT_R8G8B8A8_UNORM", aspects |-> {"COLOR"}, known |-> TRUE,
      planes |-> <<Plane("R8G8B8A8_UNORM", 32)>>],
     [name |-> "VK_FORMAT_R16G16B16_SFLOAT", aspects |-> {"COLOR"}, known |-> TRUE,
      planes |-> <<Plane("R16G16B16_FLOAT", 48)>>],
     [name |-> "VK_FORMAT_R16G16B16A16_SFLOAT", aspects |-> {"COLOR"}, known |-> TRUE,
      planes |-> <<Plane("R16G16B16A16_FLOAT", 64)>>],
     [name |-> "VK_FORMAT_R32G32B32_SFLOAT", aspects |-> {"COLOR"}, known |-> TRUE,
      planes |-> <<Plane("R32G32B32_FLOAT", 96)>>],
     [name |-> "VK_FORMAT_R32G32B32A32_SFLOAT", aspects |-> {"COLOR"}, known |-> TRUE,
      planes |-> <<Plane("R32G32B32A32_FLOAT", 128)>>],
     [name |-> "VK_FORMAT_BC1_RGB_UNORM_BLOCK", aspects |-> {"COLOR"}, known |-> TRUE,
      planes |-> <<Plane("BC1_UNORM", 64)>>],
     [name |-> "VK_FORMAT_D32_SFLOAT", aspects |-> {"DEPTH"}, known |-> TRUE,
      planes |-> <<Plane("R32_FLOAT", 32)>>],
     [name |-> "VK_FORMAT_S8_UINT", aspects |-> {"STENCIL"}, known |-> TRUE,
      planes |-> <<Plane("R8_UINT", 8)>>],
     [name |-> "VK_FORMAT_D24_UNORM_S8_UINT", aspects |-> {"DEPTH", "STENCIL"},
      known |-> TRUE,
      planes |-> <<Plane("R24_UNORM_X8_TYPELESS", 32), Plane("R8_UINT", 8)>>],
     [name |-> "VK_FORMAT_G8_B8R8_2PLANE_420_UNORM", aspects |-> {"COLOR"},
      known |-> TRUE,
      planes |-> <<Plane("R8_UNORM", 8), Plane("R8G8_UNORM", 16)>>],
     [name |-> "VK_FORMAT_G8_B8_R8_3PLANE_420_UNORM", aspects |-> {"COLOR"},
      known |-> TRUE,
      planes |-> <<Plane("R8_UNORM", 8), Plane("R8_UNORM", 8),
                   Plane("ISL_FORMAT_UNSUPPORTED", 0)>>],
     [name |-> "VK_FORMAT_UNDEFINED", aspects |-> {}, known |-> TRUE,
      planes |-> <<Plane("ISL_FORMAT_UNSUPPORTED", 0)>>],
     [name |-> "VK_FORMAT_D16_UNORM_S8_UINT", aspects |-> {"DEPTH", "STENCIL"},
      known |-> TRUE,
      planes |-> <<Plane("ISL_FORMAT_UNSUPPORTED", 0)>>],
     [name |-> "VK_FORMAT_PVRTC1_2BPP_UNORM_BLOCK_IMG", aspects |-> {"COLOR"},
      known |-> FALSE, planes |-> <<>>],
     [name |-> "VK_FORMAT_X8_D24_UNORM_PACK32", aspects |-> {"DEPTH"},
      known |-> FALSE, planes |-> <<>>]}

vk_format_aspects(vk_format) == vk_format.aspects

anv_get_format(vk_format) == IF vk_format.known THEN vk_format.planes ELSE NULL

\* The loop over the planes, from plane p on.
RECURSIVE PlanesSupported(_, _)
PlanesSupported(planes, p) ==
    IF p > Len(planes) THEN "VK_SUCCESS"
    ELSE IF planes[p].isl_format = "ISL_FORMAT_UNSUPPORTED"
    THEN "VK_ERROR_FORMAT_NOT_SUPPORTED"
    ELSE IF /\ planes[p].bpb # 8 /\ planes[p].bpb # 16 /\ planes[p].bpb # 32
            /\ planes[p].bpb # 64 /\ planes[p].bpb # 128
    THEN "VK_ERROR_FORMAT_NOT_SUPPORTED"
    ELSE PlanesSupported(planes, p + 1)

\* A generation test that leaves 12.5 with the older hardware.
IsAfterGfx125(verx10) == verx10 > 125

\* pdevice->info.verx10 >= 125
IsGfx125Plus(verx10) == verx10 >= 125

anv_sparse_image_check_support(verx10, flags, tiling, samples, type, vk_format) ==
    LET aspects == vk_format_aspects(vk_format)
        anv_format == anv_get_format(vk_format)
    IN  IF "SPARSE_RESIDENCY" \notin flags THEN "VK_SUCCESS"
        ELSE IF tiling = "VK_IMAGE_TILING_LINEAR"
        THEN "VK_ERROR_FORMAT_NOT_SUPPORTED"
        ELSE IF samples # 1 THEN "VK_ERROR_FEATURE_NOT_PRESENT"
        ELSE IF /\ aspects \cap {"DEPTH", "STENCIL"} # {}
                /\ IF IsGfx125Plus(verx10) THEN type = "3D" ELSE type # "2D"
        THEN "VK_ERROR_FORMAT_NOT_SUPPORTED"
        ELSE IF anv_format = NULL THEN "VK_ERROR_FORMAT_NOT_SUPPORTED"
        ELSE PlanesSupported(anv_format, 1)

\* The callers ask only with VK_IMAGE_CREATE_SPARSE_BINDING_BIT set, as the
\* assertion at the top of the function demands.
SupportQueries ==
    [fn : {"anv_sparse_image_check_support"},
     verx10 : {90, 110, 120, 125, 200},
     flags : {{"SPARSE_BINDING"} \cup f : f \in SUBSET {"SPARSE_RESIDENCY", "SPARSE_ALIASED"}},
     tiling : {"VK_IMAGE_TILING_OPTIMAL", "VK_IMAGE_TILING_LINEAR",
               "VK_IMAGE_TILING_DRM_FORMAT_MODIFIER_EXT"},
     samples : {1, 2, 4},
     type : {"1D", "2D", "3D"},
     vk_format : VkFormats]

SupportInit ==
    /\ InitBinding(Buffer(4096))
    /\ query \in SupportQueries
    /\ answer = NoAnswer

CheckSupport ==
    /\ query.fn = "anv_sparse_image_check_support"
    /\ answer = NoAnswer
    /\ "SPARSE_BINDING" \in query.flags
    /\ answer' = [status |-> "returned",
                  value |-> anv_sparse_image_check_support(
                                query.verx10, query.flags, query.tiling,
                                query.samples, query.type, query.vk_format)]
    /\ UNCHANGED <<query, bindvars>>

SupportNext == CheckSupport

SupportSpec == SupportInit /\ [][SupportNext]_vars

(***************************************************************************)
(* anv_sparse_calc_block_shape, asked of linear and tiled surfaces         *)
(*                                                                         *)
(* The answer is [status, shape]; status is "abort" when the assertion of  *)
(* the linear branch fails in a build that keeps assertions.               *)
(***************************************************************************)

\* assert(rows_per_tile * elements_per_row * Bpb == ANV_SPARSE_BLOCK_SIZE);
BlockShapeAssertion(surf) ==
    LET Bpb == surf.layout.bpb \div 8
        elements_per_row == surf.row_pitch_B \div (surf.tile.width * Bpb)
        rows_per_tile == ANV_SPARSE_BLOCK_SIZE \div (elements_per_row * Bpb)
    IN  surf.tiling = "ISL_TILING_LINEAR" =>
            rows_per_tile * elements_per_row * Bpb = ANV_SPARSE_BLOCK_SIZE

\* The widths, in elements, of the linear surfaces asked about.
LinearWidths == {16, 100, 192, 256, 1000, 1024, 4096, 16384, 32768}

\* The alignments, in bytes, the layout gives the row pitch of a linear
\* surface (none, a cache line, a page).
LinearPitchAlignments == {1, 64, 4096}

\* The formats of the surfaces: plain texels of every size and the 4 x 4
\* compressed blocks of 64 and 128 bits.
SurfLayouts ==
    {[bw |-> 1, bh |-> 1, bd |-> 1, bpb |-> b] : b \in TexelSizes}
    \cup {[bw |-> 4, bh |-> 4, bd |-> 1, bpb |-> b] : b \in {64, 128}}

\* A linear surface: its tile is one element, its row pitch the bytes of a
\* row of width_el elements, aligned.
LinearSurf(layout, width_el, pitch_align) ==
    [kind |-> "image", type |-> "2D", tiling |-> "ISL_TILING_LINEAR",
     layout |-> layout,
     tile |-> isl_surf_get_tile_info("ISL_TILING_LINEAR", "2D", layout.bpb),
     row_pitch_B |-> ALIGN_NPOT(width_el * (layout.bpb \div 8), pitch_align)]

\* A tiled surface two tiles wide.
TiledSurf(tiling, type, layout) ==
    LET tile == isl_surf_get_tile_info(tiling, type, layout.bpb)
    IN  [kind |-> "image", type |-> type, tiling |-> tiling,
         layout |-> layout, tile |-> tile,
         row_pitch_B |-> 2 * tile.width * (layout.bpb \div 8)]

BlockShapeQueries ==
    {[fn |-> "anv_sparse_calc_block_shape", surf |-> sf, ndebug |-> nd] :
        sf \in {LinearSurf(l, w, a) : l \in SurfLayouts, w \in LinearWidths,
                                      a \in LinearPitchAlignments}
               \cup {TiledSurf(t, ty, l) :
                        t \in Tilings \ {"ISL_TILING_LINEAR"},
                        ty \in {"2D", "3D"}, l \in SurfLayouts},
        nd \in BOOLEAN}

BlockShapeInit ==
    /\ InitBinding(Buffer(4096))
    /\ query \in BlockShapeQueries
    /\ answer = NoAnswer

CalcBlockShape ==
    /\ query.fn = "anv_sparse_calc_block_shape"
    /\ answer = NoAnswer
    /\ answer' = IF ~query.ndebug /\ ~BlockShapeAssertion(query.surf)
                 THEN [status |-> "abort"]
                 ELSE [status |-> "returned",
                       shape |-> anv_sparse_calc_block_shape(query.surf)]
    /\ UNCHANGED <<query, bindvars>>

BlockShapeNext == CalcBlockShape

BlockShapeSpec == BlockShapeInit /\ [][BlockShapeNext]_vars

(***************************************************************************)
(* Properties                                                              *)
(***************************************************************************)

ImageCallReturned ==
    pc = "idle" /\ call.name = "anv_sparse_bind_image_memory"

\* The request covers its whole mip level.
FullCover(bind) ==
    /\ bind.offset = [x |-> 0, y |-> 0, z |-> 0]
    /\ bind.extent = LevelExtent(resource, bind.mipLevel)

RECURSIVE SumSizes(_)
SumSizes(ops) ==
    IF ops = <<>> THEN 0 ELSE ops[1].bind.size + SumSizes(Tail(ops))

\* The quantities C1 names, for the request of the current call: the block
\* shape in elements and the request's extent rounded up to whole blocks,
\* in elements.
BlockEl == vk_extent3d_px_to_el(anv_sparse_calc_block_shape(resource),
                                resource.layout)
RoundedEl ==
    LET shape == anv_sparse_calc_block_shape(resource)
        e == call.req.extent
        l == resource.layout
    IN  [width  |-> (((e.width + shape.width - 1) \div shape.width)
                       * shape.width) \div l.bw,
         height |-> (((e.height + shape.height - 1) \div shape.height)
                       * shape.height) \div l.bh,
         depth  |-> (((e.depth + shape.depth - 1) \div shape.depth)
                       * shape.depth) \div l.bd]
Rows == RoundedEl.height \div BlockEl.height
DepthSlices == RoundedEl.depth \div BlockEl.depth
LineBindBytes ==
    (RoundedEl.width \div BlockEl.width)
      * (BlockEl.width * BlockEl.height * BlockEl.depth * Bytes(resource.layout))

\* C1: an image bind that covers one whole mip level and whose vm_bind
\* calls all succeed emits exactly rows x depth_slices operations, each of
\* line_bind_bytes, and their sizes add up to the rounded coverage in
\* elements times the bytes per element.
C1_FullLevelCoverage ==
    (ImageCallReturned /\ result = "VK_SUCCESS" /\ FullCover(call.req)) =>
        /\ Len(submitted) = Rows * DepthSlices
        /\ \A i \in 1..Len(submitted) : submitted[i].bind.size = LineBindBytes
        /\ SumSizes(submitted) =
             RoundedEl.width * RoundedEl.height * RoundedEl.depth
               * Bytes(resource.layout)

\* A whole level of the 3D image was bound: two rows in each of two slices.
C1_Witness ==
    /\ ImageCallReturned /\ result = "VK_SUCCESS" /\ FullCover(call.req)
    /\ Rows = 2 /\ DepthSlices = 2
    /\ Len(submitted) = 4

\* The (z, y) of the k-th iteration of the loops, k = 1, 2, ...: the rows
\* of a slice in order, then the next slice.
IterationZ(k) ==
    vk_offset3d_px_to_el(call.req.offset, resource.layout).z
      + ((k - 1) \div Rows) * BlockEl.depth
IterationY(k) ==
    vk_offset3d_px_to_el(call.req.offset, resource.layout).y
      + ((k - 1) % Rows) * BlockEl.height
IterationOp(k) ==
    vk_bind_to_anv_vm_bind(sparse,
        RowOpaqueBind(resource, call.req, IterationZ(k), IterationY(k),
                      call.req.memoryOffset + (k - 1) * LineBindBytes))

\* C2: the row operations go to the backend one at a time in iteration
\* order; the first one the backend fails is the last one submitted, the
\* call returns the failure at once, and what was submitted before it is
\* left as it is: nothing but the row operations themselves is submitted.
C2_StopsAtFirstFailure ==
    call.name = "anv_sparse_bind_image_memory" =>
        /\ Len(submitted) <= Rows * DepthSlices
        /\ \A i \in 1..Len(submitted) :
              /\ submitted[i].bind = IterationOp(i)
              /\ submitted[i].rc # 0 =>
                    /\ i = Len(submitted)
                    /\ pc = "idle"
                    /\ result = "VK_ERROR_OUT_OF_DEVICE_MEMORY"
        /\ result = "VK_ERROR_OUT_OF_DEVICE_MEMORY" =>
              /\ pc = "idle"
              /\ Len(submitted) >= 1
              /\ submitted[Len(submitted)].rc # 0
        /\ result = "VK_SUCCESS" =>
              /\ Len(submitted) = Rows * DepthSlices
              /\ \A i \in 1..Len(submitted) : submitted[i].rc = 0

\* The third of four row operations failed: two stay submitted, the fourth
\* never is.
C2_Witness ==
    /\ ImageCallReturned
    /\ result = "VK_ERROR_OUT_OF_DEVICE_MEMORY"
    /\ Rows * DepthSlices = 4
    /\ Len(submitted) = 3
    /\ submitted[1].rc = 0 /\ submitted[2].rc = 0 /\ submitted[3].rc # 0

Range(sparse_data) == [address |-> sparse_data.address, size |-> sparse_data.size]

FreeCallReturned ==
    pc = "idle" /\ call.name = "anv_free_sparse_bindings"

\* C3: destroying a resource that holds a reserved range issues exactly one
\* UNBIND over exactly [address, address + size) and, whatever the backend
\* answers, leaves the range no longer reserved.
C3_FreeAlwaysReleases ==
    (FreeCallReturned /\ sparse.address # 0) =>
        /\ Len(submitted) = 1
        /\ submitted[1].bind.op = "ANV_VM_UNBIND"
        /\ submitted[1].bind.address = sparse.address
        /\ submitted[1].bind.size = sparse.size
        /\ Range(sparse) \notin vma

InitCallReturned ==
    pc = "idle" /\ call.name = "anv_init_sparse_bindings"

\* C4: a failed creation leaves no range reserved for the resource, a
\* range reserved during the call having been released exactly once; a
\* successful creation leaves exactly one reserved range, which received
\* exactly one NULL bind over its whole size.
C4_InitAllOrNothing ==
    InitCallReturned =>
        /\ result # "VK_SUCCESS" =>
              /\ Range(sparse) \notin vma
              /\ sparse.address # 0 => vma_frees = <<Range(sparse)>>
        /\ result = "VK_SUCCESS" =>
              /\ sparse.address # 0
              /\ Range(sparse) \in vma
              /\ vma_frees = <<>>
              /\ Len(submitted) = 1
              /\ submitted[1].rc = 0
              /\ submitted[1].bind = [bo |-> NULL, address |-> sparse.address,
                                      bo_offset |-> 0, size |-> sparse.size,
                                      op |-> "ANV_VM_BIND"]

\* The backend refused something during the call that has returned: the
\* VMA heap gave no range, or a vm_bind call failed.
BackendFailed ==
    \/ call.name = "anv_init_sparse_bindings" /\ sparse.address = 0
    \/ \E i \in 1..Len(submitted) : submitted[i].rc # 0

\* C5: every backend failure (no VA range, a failed bind, a failed unbind)
\* makes the operation return VK_ERROR_OUT_OF_DEVICE_MEMORY.
C5_BackendFailureIsDeviceMemoryError ==
    (pc = "idle" /\ call.name # "none" /\ BackendFailed) =>
        result = "VK_ERROR_OUT_OF_DEVICE_MEMORY"

\* C6: every operation handed to the backend has an address and a size
\* that are multiples of ANV_SPARSE_BLOCK_SIZE (stated here of the resources
\* whose VA range was reserved, whose base address is such a multiple).
C6_OperationsAreBlockAligned ==
    sparse.address # 0 =>
    \A i \in 1..Len(submitted) :
        /\ submitted[i].bind.address % ANV_SPARSE_BLOCK_SIZE = 0
        /\ submitted[i].bind.size % ANV_SPARSE_BLOCK_SIZE = 0

\* The call that has returned unbinds what the call before it bound, and
\* the backend failed neither.
BoundThenUnbound ==
    /\ pc = "idle"
    /\ prev.call.name # "none"
    /\ prev.result = "VK_SUCCESS"
    /\ result = "VK_SUCCESS"

SameAddressesAndSizes ==
    /\ Len(submitted) = Len(prev.submitted)
    /\ \A i \in 1..Len(submitted) :
          /\ submitted[i].bind.address = prev.submitted[i].bind.address
          /\ submitted[i].bind.size = prev.submitted[i].bind.size

\* C7 as the spec states it: binding a request and then unbinding the same
\* request emits the same (address, size) pairs in the same order, with
\* the operation kind reversed: UNBIND where the bind had BIND.
C7_UnbindReversesKind ==
    BoundThenUnbound =>
        /\ SameAddressesAndSizes
        /\ \A i \in 1..Len(submitted) :
              /\ prev.submitted[i].bind.op = "ANV_VM_BIND"
              /\ submitted[i].bind.op = "ANV_VM_UNBIND"

\* C7 as the code has it: binding a request and then unbinding the same
\* request emits the same (address, size) pairs in the same order, every
\* operation of both sequences of kind BIND; the second sequence binds the
\* NULL object at offset 0 where the first bound the memory object.
C7_UnbindIsNullBind ==
    BoundThenUnbound =>
        /\ SameAddressesAndSizes
        /\ \A i \in 1..Len(submitted) :
              /\ prev.submitted[i].bind.op = "ANV_VM_BIND"
              /\ submitted[i].bind.op = "ANV_VM_BIND"
              /\ prev.submitted[i].bind.bo = prev.call.req.memory
              /\ submitted[i].bind.bo = NULL
              /\ submitted[i].bind.bo_offset = 0

\* An image request of several rows was bound and then unbound.
C7_Witness ==
    /\ BoundThenUnbound
    /\ call.name = "anv_sparse_bind_image_memory"
    /\ Len(submitted) = 4
    /\ submitted[1].bind.address # submitted[2].bind.address

MiptailReturned ==
    /\ query.fn = "anv_sparse_calc_miptail_properties"
    /\ answer.status = "returned"

\* C8: every miptail descriptor returned has one of three shapes: no
\* miptail (first level = mip count, size 0); partial (size = the binding
\* granularity, the reported offset, plane base included, a multiple of
\* it); fallback (first level 0, size = the byte size of the whole plane).
C8_DescriptorShapes ==
    MiptailReturned =>
        \/ /\ answer.first_lod = query.image.mip_levels
           /\ answer.size = 0
        \/ /\ answer.size = ANV_SPARSE_BLOCK_SIZE
           /\ answer.offset % answer.size = 0
        \/ /\ answer.first_lod = 0
           /\ answer.size = query.image.size_B

\* A partial miptail of a plane that does not start its binding.
C8_Witness ==
    /\ MiptailReturned
    /\ query.image.plane_offset # 0
    /\ answer.first_lod = 2
    /\ answer.size = ANV_SPARSE_BLOCK_SIZE
    /\ answer.offset > query.image.plane_offset

\* The byte offset of array layer 1, the size of the whole surface standing
\* in for it on a single-layer image, and its place inside its tile.
Layer1(image) ==
    IF image.array_layers = 1
    THEN [offset_B |-> image.size_B, x_off |-> 0, y_off |-> 0]
    ELSE isl_surf_get_image_offset_B_tile_sa(image, 0, 1, 0)

\* What C9 asks of the surface.
SparseFriendly(image) ==
    /\ image.tiling \in {"ISL_TILING_64", "ISL_TILING_ICL_Ys", "ISL_TILING_SKL_Ys"}
    /\ TileBytes(image) = ANV_SPARSE_BLOCK_SIZE
    /\ Layer1(image).x_off = 0
    /\ Layer1(image).y_off = 0
    /\ Layer1(image).offset_B % TileBytes(image) = 0

\* C9: on a surface of a standard-block-shape tiling whose tile is the
\* binding granularity and whose layer 1 is tile aligned, the result is
\* never the fallback: it is no-miptail when the layout's miptail start
\* level is not below the mip count, and else the partial descriptor with
\* that level, the granularity, plane base + the level's byte offset, and
\* the layer-1 offset as stride.
C9_SparseFriendlyNeverFallsBack ==
    (MiptailReturned /\ SparseFriendly(query.image)) =>
        LET image == query.image
            start == image.miptail_start_level
        IN  IF start >= image.mip_levels
            THEN answer = Descriptor(image.mip_levels, 0, 0, 0)
            ELSE answer =
                   Descriptor(start, ANV_SPARSE_BLOCK_SIZE,
                              image.plane_offset
                                + isl_surf_get_image_offset_B_tile_sa(
                                      image, start, 0, 0).offset_B,
                              Layer1(image).offset_B)

\* A partial miptail of a two-layer image: the stride is the layer pitch.
C9_Witness ==
    /\ MiptailReturned /\ SparseFriendly(query.image)
    /\ query.image.array_layers = 2
    /\ query.image.miptail_start_level = 1
    /\ answer.first_lod = 1
    /\ answer.stride = 6 * ANV_SPARSE_BLOCK_SIZE
    /\ answer.offset = query.image.plane_offset + 4 * ANV_SPARSE_BLOCK_SIZE

SupportReturned ==
    /\ query.fn = "anv_sparse_image_check_support"
    /\ answer.status = "returned"

PowerOfTwoBits == {8, 16, 32, 64, 128}

\* The ordered rule list of C10, for the query made.
RuleListDecision ==
    LET f == query.vk_format
        depth_stencil == "DEPTH" \in f.aspects \/ "STENCIL" \in f.aspects
        newer == query.verx10 >= 125
    IN  CASE "SPARSE_RESIDENCY" \notin query.flags -> "VK_SUCCESS"
          [] OTHER ->
        CASE query.tiling = "VK_IMAGE_TILING_LINEAR" -> "VK_ERROR_FORMAT_NOT_SUPPORTED"
          [] OTHER ->
        CASE query.samples # 1 -> "VK_ERROR_FEATURE_NOT_PRESENT"
          [] OTHER ->
        CASE depth_stencil /\ newer /\ query.type = "3D" -> "VK_ERROR_FORMAT_NOT_SUPPORTED"
          [] depth_stencil /\ ~newer /\ query.type # "2D" -> "VK_ERROR_FORMAT_NOT_SUPPORTED"
          [] OTHER ->
        CASE ~f.known -> "VK_ERROR_FORMAT_NOT_SUPPORTED"
          [] \E p \in 1..Len(f.planes) :
                \/ f.planes[p].isl_format = "ISL_FORMAT_UNSUPPORTED"
                \/ f.planes[p].bpb \notin PowerOfTwoBits
             -> "VK_ERROR_FORMAT_NOT_SUPPORTED"
          [] OTHER -> "VK_SUCCESS"

\* C10: the validator returns exactly the decision of the ordered rule
\* list (no residency flag: accept; linear: format not supported; more
\* than one sample: feature not present; depth/stencil with 3D on 12.5+ or
\* with anything but 2D before: format not supported; unknown format or a
\* plane that is unsupported or not 8/16/32/64/128 bits wide: format not
\* supported; else accept), nothing else, and it touches no state: no range
\* is reserved and nothing is submitted to the backend.
C10_ValidatorRuleList ==
    SupportReturned =>
        /\ answer.value = RuleListDecision
        /\ answer.value \in {"VK_SUCCESS", "VK_ERROR_FORMAT_NOT_SUPPORTED",
                             "VK_ERROR_FEATURE_NOT_PRESENT"}
        /\ vma = {} /\ submitted = <<>> /\ life = "none"
        /\ sparse = [address |-> 0, size |-> 0]

\* A depth/stencil 1D image with residency on generation 12.5 passes the
\* dimensionality rule and is accepted.
C10_Witness ==
    /\ SupportReturned
    /\ query.verx10 = 125
    /\ "SPARSE_RESIDENCY" \in query.flags
    /\ query.tiling = "VK_IMAGE_TILING_OPTIMAL"
    /\ query.samples = 1
    /\ query.type = "1D"
    /\ query.vk_format.name = "VK_FORMAT_D24_UNORM_S8_UINT"
    /\ answer.value = "VK_SUCCESS"

LinearShapeAsked ==
    /\ query.fn = "anv_sparse_calc_block_shape"
    /\ query.surf.tiling = "ISL_TILING_LINEAR"
    /\ answer # NoAnswer

\* C11: for a linear surface the block shape is row pitch / bytes per
\* element wide, granularity constant / bytes of that row high and one
\* block deep, its footprint (rows x elements per row x bytes per element)
\* is exactly the granularity constant, and the assertion on it never fails,
\* whatever row pitch the layout supplies.
C11_LinearShapeFillsBlock ==
    LinearShapeAsked =>
        LET layout == query.surf.layout
            Bpb == layout.bpb \div 8
            elements == query.surf.row_pitch_B \div Bpb
            rows == ANV_SPARSE_BLOCK_SIZE \div (elements * Bpb)
        IN  /\ answer.status = "returned"
            /\ answer.shape = [width |-> elements * layout.bw,
                               height |-> rows * layout.bh,
                               depth |-> layout.bd]
            /\ (answer.shape.height \div layout.bh)
                 * (answer.shape.width \div layout.bw) * Bpb
               = ANV_SPARSE_BLOCK_SIZE

LinearMiptailAsked ==
    /\ query.fn = "anv_sparse_calc_miptail_properties"
    /\ query.image.tiling = "ISL_TILING_LINEAR"
    /\ answer # NoAnswer

WholeResourceIsMiptail ==
    answer = Descriptor(0, query.image.size_B, query.image.plane_offset, 0)

ImageCallWithMemory ==
    /\ call.name = "anv_sparse_bind_image_memory"
    /\ call.req.memory # NULL

\* C13: with a memory object, the k-th operation of an image bind (k = 0,
\* 1, ... in iteration order) binds that object at the request's memory
\* offset + k x line_bind_bytes: successive, contiguous ranges of the
\* backing object that do not overlap, the offset going on across depth
\* slices without a reset.
C13_BackingOffsetsAccumulate ==
    ImageCallWithMemory =>
        /\ \A i \in 1..Len(submitted) :
              /\ submitted[i].bind.bo = call.req.memory
              /\ submitted[i].bind.bo_offset =
                    call.req.memoryOffset + (i - 1) * LineBindBytes
        /\ \A i \in 1..(Len(submitted) - 1) :
              submitted[i + 1].bind.bo_offset =
                 submitted[i].bind.bo_offset + submitted[i].bind.size
        /\ \A i, j \in 1..Len(submitted) :
              i < j => submitted[i].bind.bo_offset + submitted[i].bind.size
                         <= submitted[j].bind.bo_offset

\* Two rows in each of two slices bound from a memory offset of one block:
\* the first row of the second slice goes on where the first slice ended.
C13_Witness ==
    /\ ImageCallReturned /\ ImageCallWithMemory
    /\ result = "VK_SUCCESS"
    /\ call.req.memoryOffset = ANV_SPARSE_BLOCK_SIZE
    /\ Rows = 2 /\ DepthSlices = 2
    /\ Len(submitted) = 4
    /\ submitted[3].bind.bo_offset = ANV_SPARSE_BLOCK_SIZE + 2 * LineBindBytes

\* What C14 names, for the request of the current call: the blocks in a
\* row of the surface, the bytes of a block, the request's offset in
\* elements and the base offset of the slice of the k-th iteration.
BlocksPerRow ==
    (resource.row_pitch_B \div Bytes(resource.layout)) \div BlockEl.width
BlockSizeBytes ==
    BlockEl.width * BlockEl.height * BlockEl.depth * Bytes(resource.layout)
OffsetEl == vk_offset3d_px_to_el(call.req.offset, resource.layout)
SliceOffset(k) ==
    isl_surf_get_image_offset_B_tile_sa(resource, call.req.mipLevel,
                                        call.req.arrayLayer,
                                        IterationZ(k)).offset_B

\* The rectangle, rounded to blocks, lies inside the rows of the surface.
RectangleInsideRow ==
    OffsetEl.x + RoundedEl.width <= resource.row_pitch_B \div Bytes(resource.layout)

\* The slices the request covers start at distinct offsets, each past the
\* last block row the request touches in the slice before it.
SlicesApart ==
    \A a, b \in 1..(Rows * DepthSlices) :
        IterationZ(a) < IterationZ(b) =>
            SliceOffset(a)
              + ((OffsetEl.y + RoundedEl.height) \div BlockEl.height)
                  * BlocksPerRow * BlockSizeBytes
            <= SliceOffset(b)

\* The address C14 gives the k-th operation.
RowAddress(k) ==
    sparse.address + resource.plane_offset + SliceOffset(k)
      + (IterationY(k) \div BlockEl.height) * BlocksPerRow * BlockSizeBytes
      + (OffsetEl.x \div BlockEl.width) * BlockSizeBytes

RowsDisjointAndPlaced ==
    /\ \A i \in 1..Len(submitted) : submitted[i].bind.address = RowAddress(i)
    /\ \A i, j \in 1..Len(submitted) :
          i # j =>
             \/ submitted[i].bind.address + submitted[i].bind.size
                  <= submitted[j].bind.address
             \/ submitted[j].bind.address + submitted[j].bind.size
                  <= submitted[i].bind.address
    /\ \A i \in 1..Len(submitted) :
          /\ sparse.address <= submitted[i].bind.address
          /\ submitted[i].bind.address + submitted[i].bind.size
               <= sparse.address + sparse.size

ImageCallInsideSubresource ==
    /\ call.name = "anv_sparse_bind_image_memory"
    /\ RectangleInsideRow
    /\ SlicesApart

\* C14: within one image bind whose rounded rectangle lies inside the
\* subresource and whose slices are apart, the VA ranges of the operations
\* are pairwise disjoint, each starts at sparse base + plane offset + slice
\* offset + (y / block height) x blocks per row x block bytes + (x / block
\* width) x block bytes, and each lies inside the VA range reserved for the
\* resource.
C14_RowsInsideReservedRange ==
    ImageCallInsideSubresource =>
        /\ RowsDisjointAndPlaced
        /\ Len(submitted) > 0 => Range(sparse) \in vma

\* The same of the resources whose creation did reserve a range.
RowsInsideRangeWhenReserved ==
    (ImageCallInsideSubresource /\ Range(sparse) \in vma) => RowsDisjointAndPlaced

====
